---- MODULE Spec2Model ----
(***************************************************************************)
(* A model of OptimizedMHMIsotopeFinder                                    *)
(* (src/optimized_mhm_isotope_finder.py).                                  *)
(*                                                                         *)
(* Numbers.  The program computes in IEEE doubles; the model computes in   *)
(* fixed point with four decimal places: a value v is represented by the   *)
(* integer v * Scale.  15.75 is 157500, 0.4 is 4000, 1.0 is 10000.         *)
(* Products and quotients are truncated towards zero to that resolution,   *)
(* and are computed in halves so that every intermediate fits 31 bits.     *)
(* The library functions A ** (2/3), A ** (1/3), np.sqrt, np.log and       *)
(* np.sin are tabulated at the integer arguments the program passes.       *)
(*                                                                         *)
(* Faults.  A Python ZeroDivisionError is modelled as the result           *)
(* [error |-> "ZeroDivisionError"] of the function that raises it.         *)
(***************************************************************************)
EXTENDS Integers, Sequences, FiniteSets, Bags, TLC

VARIABLES
  self,               \* the attributes set by __init__ (lines 26-67)
  pc,                 \* "idle", or the method whose loop is running
  frame,              \* locals and return value of the last direct query
  elem_index,         \* find_medical_isotopes: position in elements_to_check
  sweep_N,            \* find_medical_isotopes: the loop variable N
  medical_isotopes,   \* find_medical_isotopes: the list being collected
  val_index,          \* validate_against_known_values: position in the dict
  validation_results, \* validate_against_known_values: the list being built
  returned,           \* what the last finished search / validation returned
  evaluated,          \* find_medical_isotopes: the (Z, N) it has passed to
                      \* calculate_stability so far, in order
  threads             \* the queries of the threads that share the instance:
                      \* per thread its position, arguments and locals

vars == <<self, pc, frame, elem_index, sweep_N, medical_isotopes,
          val_index, validation_results, returned, evaluated, threads>>

----------------------------------------------------------------------------
(* Bounds of the query inputs *)

MaxZ == 94
MaxN == 130

\* the queries also take Z and N down to -NegDepth
NegDepth == 2

\* the number of threads that share the instance
NumThreads == 2

\* the longest list of predictions handed to the validator
MaxPredictions == 2

----------------------------------------------------------------------------
(* Fixed-point arithmetic *)

Scale == 10^4

Abs(x) == IF x < 0 THEN -x ELSE x

Sgn(x) == IF x < 0 THEN -1 ELSE 1

Max(a, b) == IF a >= b THEN a ELSE b

Min(a, b) == IF a <= b THEN a ELSE b

\* a * b for two fixed-point numbers
FxMul(a, b) ==
  LET x  == Abs(a)
      y  == Abs(b)
      xh == x \div Scale
      xl == x % Scale
      yh == y \div Scale
      yl == y % Scale
  IN  Sgn(a) * Sgn(b) * (xh * yh * Scale + xh * yl + xl * yh + (xl * yl) \div Scale)

\* a / b for two fixed-point numbers, b # 0 (long division, four decimals)
FxDiv(a, b) ==
  LET x  == Abs(a)
      y  == Abs(b)
      q0 == x \div y
      r0 == x % y
      q1 == (r0 * 10) \div y
      r1 == (r0 * 10) % y
      q2 == (r1 * 10) \div y
      r2 == (r1 * 10) % y
      q3 == (r2 * 10) \div y
      r3 == (r2 * 10) % y
      q4 == (r3 * 10) \div y
  IN  Sgn(a) * Sgn(b) * (q0 * 10000 + q1 * 1000 + q2 * 100 + q3 * 10 + q4)

\* a / n for a fixed-point a and a nonzero integer n
FxDivInt(a, n) == Sgn(a) * Sgn(n) * (Abs(a) \div Abs(n))

\* the fixed-point number of the integer n
Fx(n) == n * Scale

----------------------------------------------------------------------------
(* Library functions at integer arguments *)

\* A ** (2/3) for A = 0, 1, 2, ... (entry A+1), in units of 1/Scale
PowTwoThirdsTable ==
  <<0, 10000, 15874, 20801, 25198, 29240, 33019, 36593, 40000, 43267, 46416, 49461,
    52415, 55288, 58088, 60822, 63496, 66115, 68683, 71204, 73681, 76117, 78514, 80876,
    83203, 85499, 87764, 90000, 92209, 94391, 96549, 98683, 100794, 102883, 104951, 106999,
    109027, 111037, 113029, 115003, 116961, 118902, 120828, 122738, 124634, 126515, 128382, 130236,
    132077, 133905, 135721, 137525, 139316, 141097, 142866, 144624, 146372, 148110, 149837, 151554,
    153262, 154960, 156649, 158329, 160000, 161662, 163316, 164962, 166599, 168228, 169850, 171464,
    173070, 174669, 176260, 177845, 179422, 180992, 182556, 184113, 185664, 187208, 188745, 190277,
    191802, 193321, 194834, 196342, 197843, 199339, 200830, 202315, 203794, 205268, 206737, 208201,
    209659, 211113, 212561, 214005, 215443, 216877, 218307, 219731, 221151, 222566, 223977, 225384,
    226786, 228184, 229577, 230966, 232351, 233732, 235109, 236482, 237851, 239216, 240577, 241935,
    243288, 244638, 245984, 247326, 248665, 250000, 251332, 252660, 253984, 255305, 256623, 257937,
    259248, 260556, 261860, 263162, 264460, 265754, 267046, 268335, 269620, 270902, 272182, 273458,
    274731, 276002, 277269, 278534, 279796, 281055, 282311, 283564, 284815, 286063, 287308, 288550,
    289790, 291027, 292261, 293493, 294723, 295949, 297173, 298395, 299614, 300831, 302045, 303257,
    304467, 305674, 306878, 308080, 309280, 310478, 311673, 312866, 314057, 315245, 316432, 317616,
    318798, 319977, 321155, 322330, 323503, 324674, 325843, 327010, 328175, 329338, 330498, 331657,
    332813, 333968, 335121, 336271, 337420, 338567, 339711, 340854, 341995, 343134, 344271, 345407,
    346540, 347672, 348801, 349929, 351055, 352180, 353302, 354423, 355542, 356659, 357774, 358888,
    360000, 361110, 362219, 363326, 364431, 365534, 366636, 367736, 368835, 369932, 371027, 372121,
    373213, 374303, 375392, 376479, 377565, 378649, 379732, 380813, 381893, 382971, 384047, 385122,
    386196, 387268, 388338, 389407, 390475, 391541, 392606, 393669, 394731, 395791, 396850, 397908,
    398964, 400019, 401072, 402124, 403175, 404224, 405272, 406318, 407364, 408407, 409450>>

\* A ** (1/3) for A = 0, 1, 2, ... (entry A+1), in units of 1/Scale
PowOneThirdTable ==
  <<0, 10000, 12599, 14422, 15874, 17100, 18171, 19129, 20000, 20801, 21544, 22240,
    22894, 23513, 24101, 24662, 25198, 25713, 26207, 26684, 27144, 27589, 28020, 28439,
    28845, 29240, 29625, 30000, 30366, 30723, 31072, 31414, 31748, 32075, 32396, 32711,
    33019, 33322, 33620, 33912, 34200, 34482, 34760, 35034, 35303, 35569, 35830, 36088,
    36342, 36593, 36840, 37084, 37325, 37563, 37798, 38030, 38259, 38485, 38709, 38930,
    39149, 39365, 39579, 39791, 40000, 40207, 40412, 40615, 40817, 41016, 41213, 41408,
    41602, 41793, 41983, 42172, 42358, 42543, 42727, 42908, 43089, 43267, 43445, 43621,
    43795, 43968, 44140, 44310, 44480, 44647, 44814, 44979, 45144, 45307, 45468, 45629,
    45789, 45947, 46104, 46261, 46416, 46570, 46723, 46875, 47027, 47177, 47326, 47475,
    47622, 47769, 47914, 48059, 48203, 48346, 48488, 48629, 48770, 48910, 49049, 49187,
    49324, 49461, 49597, 49732, 49866, 50000, 50133, 50265, 50397, 50528, 50658, 50788,
    50916, 51045, 51172, 51299, 51426, 51551, 51676, 51801, 51925, 52048, 52171, 52293,
    52415, 52536, 52656, 52776, 52896, 53015, 53133, 53251, 53368, 53485, 53601, 53717,
    53832, 53947, 54061, 54175, 54288, 54401, 54514, 54626, 54737, 54848, 54959, 55069,
    55178, 55288, 55397, 55505, 55613, 55721, 55828, 55934, 56041, 56147, 56252, 56357,
    56462, 56567, 56671, 56774, 56877, 56980, 57083, 57185, 57287, 57388, 57489, 57590,
    57690, 57790, 57890, 57989, 58088, 58186, 58285, 58383, 58480, 58578, 58675, 58771,
    58868, 58964, 59059, 59155, 59250, 59345, 59439, 59533, 59627, 59721, 59814, 59907,
    60000, 60092, 60185, 60277, 60368, 60459, 60550, 60641, 60732, 60822, 60912, 61002,
    61091, 61180, 61269, 61358, 61446, 61534, 61622, 61710, 61797, 61885, 61972, 62058,
    62145, 62231, 62317, 62403, 62488, 62573, 62658, 62743, 62828, 62912, 62996, 63080,
    63164, 63247, 63330, 63413, 63496, 63579, 63661, 63743, 63825, 63907, 63988>>

\* np.sqrt(A) for A = 0, 1, 2, ... (entry A+1), in units of 1/Scale
SqrtTable ==
  <<0, 10000, 14142, 17321, 20000, 22361, 24495, 26458, 28284, 30000, 31623, 33166,
    34641, 36056, 37417, 38730, 40000, 41231, 42426, 43589, 44721, 45826, 46904, 47958,
    48990, 50000, 50990, 51962, 52915, 53852, 54772, 55678, 56569, 57446, 58310, 59161,
    60000, 60828, 61644, 62450, 63246, 64031, 64807, 65574, 66332, 67082, 67823, 68557,
    69282, 70000, 70711, 71414, 72111, 72801, 73485, 74162, 74833, 75498, 76158, 76811,
    77460, 78102, 78740, 79373, 80000, 80623, 81240, 81854, 82462, 83066, 83666, 84261,
    84853, 85440, 86023, 86603, 87178, 87750, 88318, 88882, 89443, 90000, 90554, 91104,
    91652, 92195, 92736, 93274, 93808, 94340, 94868, 95394, 95917, 96437, 96954, 97468,
    97980, 98489, 98995, 99499, 100000, 100499, 100995, 101489, 101980, 102470, 102956, 103441,
    103923, 104403, 104881, 105357, 105830, 106301, 106771, 107238, 107703, 108167, 108628, 109087,
    109545, 110000, 110454, 110905, 111355, 111803, 112250, 112694, 113137, 113578, 114018, 114455,
    114891, 115326, 115758, 116190, 116619, 117047, 117473, 117898, 118322, 118743, 119164, 119583,
    120000, 120416, 120830, 121244, 121655, 122066, 122474, 122882, 123288, 123693, 124097, 124499,
    124900, 125300, 125698, 126095, 126491, 126886, 127279, 127671, 128062, 128452, 128841, 129228,
    129615, 130000, 130384, 130767, 131149, 131529, 131909, 132288, 132665, 133041, 133417, 133791,
    134164, 134536, 134907, 135277, 135647, 136015, 136382, 136748, 137113, 137477, 137840, 138203,
    138564, 138924, 139284, 139642, 140000, 140357, 140712, 141067, 141421, 141774, 142127, 142478,
    142829, 143178, 143527, 143875, 144222, 144568, 144914, 145258, 145602, 145945, 146287, 146629,
    146969, 147309, 147648, 147986, 148324, 148661, 148997, 149332, 149666, 150000, 150333, 150665,
    150997, 151327, 151658, 151987, 152315, 152643, 152971, 153297, 153623, 153948, 154272, 154596,
    154919, 155242, 155563, 155885, 156205, 156525, 156844, 157162, 157480, 157797, 158114, 158430,
    158745, 159060, 159374, 159687, 160000, 160312, 160624, 160935, 161245, 161555, 161864>>

\* np.log(A) for A = 1, 2, ... (entry A+1; entry 1 is unused, log(0) is never taken), in units of 1/Scale
LogTable ==
  <<0, 0, 6931, 10986, 13863, 16094, 17918, 19459, 20794, 21972, 23026, 23979,
    24849, 25649, 26391, 27081, 27726, 28332, 28904, 29444, 29957, 30445, 30910, 31355,
    31781, 32189, 32581, 32958, 33322, 33673, 34012, 34340, 34657, 34965, 35264, 35553,
    35835, 36109, 36376, 36636, 36889, 37136, 37377, 37612, 37842, 38067, 38286, 38501,
    38712, 38918, 39120, 39318, 39512, 39703, 39890, 40073, 40254, 40431, 40604, 40775,
    40943, 41109, 41271, 41431, 41589, 41744, 41897, 42047, 42195, 42341, 42485, 42627,
    42767, 42905, 43041, 43175, 43307, 43438, 43567, 43694, 43820, 43944, 44067, 44188,
    44308, 44427, 44543, 44659, 44773, 44886, 44998, 45109, 45218, 45326, 45433, 45539,
    45643, 45747, 45850, 45951, 46052, 46151, 46250, 46347, 46444, 46540, 46634, 46728,
    46821, 46913, 47005, 47095, 47185, 47274, 47362, 47449, 47536, 47622, 47707, 47791,
    47875, 47958, 48040, 48122, 48203, 48283, 48363, 48442, 48520, 48598, 48675, 48752,
    48828, 48903, 48978, 49053, 49127, 49200, 49273, 49345, 49416, 49488, 49558, 49628,
    49698, 49767, 49836, 49904, 49972, 50039, 50106, 50173, 50239, 50304, 50370, 50434,
    50499, 50562, 50626, 50689, 50752, 50814, 50876, 50938, 50999, 51059, 51120, 51180,
    51240, 51299, 51358, 51417, 51475, 51533, 51591, 51648, 51705, 51761, 51818, 51874,
    51930, 51985, 52040, 52095, 52149, 52204, 52257, 52311, 52364, 52417, 52470, 52523,
    52575, 52627, 52679, 52730, 52781, 52832, 52883, 52933, 52983, 53033, 53083, 53132,
    53181, 53230, 53279, 53327, 53375, 53423, 53471, 53519, 53566, 53613, 53660, 53706,
    53753, 53799, 53845, 53891, 53936, 53982, 54027, 54072, 54116, 54161, 54205, 54250,
    54293, 54337, 54381, 54424, 54467, 54510, 54553, 54596, 54638, 54681, 54723, 54765,
    54806, 54848, 54889, 54931, 54972, 55013, 55053, 55094, 55134, 55175, 55215, 55255,
    55294, 55334, 55373, 55413, 55452, 55491, 55530, 55568, 55607, 55645, 55683>>

\* np.sin(A / 1.618) for A = 0, 1, 2, ... (entry A+1), in units of 1/Scale
SinGoldenTable ==
  <<0, 5794, 9445, 9601, 6205, 513, -5368, -9264, -9732, -6600, -1025, 4928,
    9058, 9837, 6977, 1535, -4475, -8829, -9917, -7335, -2040, 4010, 8576, 9970,
    7674, 2540, -3535, -8301, -9996, -7993, -3033, 3050, 8004, 9997, 8291, 3518,
    -2557, -7686, -9971, -8567, -3994, 2057, 7347, 9919, 8821, 4459, -1552, -6989,
    -9840, -9051, -4913, 1043, 6613, 9736, 9257, 5354, -531, -6219, -9606, -9439,
    -5780, 18, 5809, 9451, 9596, 6191, 496, -5383, -9271, -9728, -6586, -1008,
    4943, 9066, 9834, 6964, 1517, -4491, -8837, -9914, -7323, -2023, 4026, 8585,
    9968, 7663, 2523, -3551, -8311, -9996, -7983, -3016, 3066, 8014, 9997, 8281,
    3502, -2574, -7697, -9972, -8558, -3978, 2074, 7359, 9921, 8813, 4444, -1569,
    -7002, -9844, -9044, -4898, 1060, 6626, 9740, 9251, 5339, -548, -6233, -9611,
    -9434, -5766, 35, 5823, 9457, 9591, 6178, 478, -5398, -9277, -9724, -6573,
    -990, 4959, 9073, 9831, 6951, 1500, -4506, -8845, -9912, -7311, -2006, 4042,
    8594, 9967, 7652, 2506, -3567, -8321, -9995, -7972, -2999, 3083, 8025, 9998,
    8272, 3485, -2591, -7708, -9974, -8549, -3962, 2091, 7371, 9923, 8804, 4428,
    -1587, -7014, -9847, -9036, -4882, 1078, 6639, 9744, 9244, 5324, -566, -6246,
    -9616, -9428, -5751, 53, 5837, 9462, 9586, 6164, 461, -5413, -9284, -9720,
    -6560, -973, 4974, 9081, 9828, 6939, 1483, -4522, -8854, -9910, -7299, -1988,
    4058, 8603, 9965, 7641, 2489, -3584, -8330, -9995, -7962, -2983, 3100, 8035,
    9998, 8262, 3469, -2608, -7719, -9975, -8540, -3946, 2109, 7383, 9925, 8796,
    4412, -1604, -7027, -9850, -9029, -4867, 1095, 6652, 9748, 9237, 5309, -583,
    -6260, -9621, -9422, -5737, 70, 5851, 9468, 9581, 6150, 443, -5427, -9290,
    -9716, -6547, -956, 4989, 9088, 9824, 6926, 1465, -4538, -8862, -9907>>

\* A ** (2/3); for A < 0 Python returns the complex principal value
\* |A| ** (2/3) * (cos(2 pi / 3) + i sin(2 pi / 3)): PowTwoThirds is its real
\* part, PowTwoThirdsIm its imaginary part
PowTwoThirds(A) ==
  IF A >= 0 THEN PowTwoThirdsTable[A + 1]
  ELSE FxMul(PowTwoThirdsTable[(-A) + 1], -5000)

PowTwoThirdsIm(A) ==
  IF A >= 0 THEN 0
  ELSE FxMul(PowTwoThirdsTable[(-A) + 1], 8660)

PowOneThird(A) == PowOneThirdTable[A + 1]

Sqrt(A) == SqrtTable[A + 1]

Log(A) == LogTable[A + 1]

\* np.sin(A / golden_ratio), golden_ratio = 1.618
SinGolden(A) ==
  IF A >= 0 THEN SinGoldenTable[A + 1] ELSE -SinGoldenTable[(-A) + 1]

----------------------------------------------------------------------------
(* __init__ *)

av == 157500

as_ == 178000

ac == 7110

aa == 237000

ap == 111800

magic_numbers == {2, 8, 20, 28, 50, 82, 126}

tesla_folding ==
  [base_multiplier     |-> 12340,
   resonance_factor    |-> 10500,
   consciousness_level |-> 8200,
   golden_ratio        |-> 16180,
   tesla_numbers       |-> <<3, 6, 9>>,
   error_correction    |-> 9650]

calibration ==
  [stability_threshold     |-> 5000,
   medical_range           |-> <<2000, 7000>>,
   binding_energy_scale    |-> 1500,
   light_nuclei_correction |-> TRUE,
   heavy_nuclei_correction |-> TRUE]

\* name, reference binding energy; in the dict's insertion order
known_binding_energies ==
  << <<"He-4", 282960>>, <<"C-12", 921620>>, <<"O-16", 1276190>>,
     <<"Fe-56", 4922540>>, <<"U-235", 17839000>>, <<"U-238", 18017000>> >>

Constructed ==
  [av |-> av, as_ |-> as_, ac |-> ac, aa |-> aa, ap |-> ap,
   magic_numbers |-> magic_numbers,
   tesla_folding |-> tesla_folding,
   calibration |-> calibration,
   known_binding_energies |-> known_binding_energies]

----------------------------------------------------------------------------
(* apply_mhm_enhancement *)

\* the loop leaving at the first modulus that divides A
tesla_boost_first_match(A, i, tesla_boost) ==
  IF \E k \in i..Len(self.tesla_folding.tesla_numbers) :
       A % self.tesla_folding.tesla_numbers[k] = 0
  THEN FxMul(tesla_boost, self.tesla_folding.resonance_factor)
  ELSE tesla_boost

\* lines 121-125: the loop over tesla_numbers
RECURSIVE tesla_boost_loop(_, _, _)
tesla_boost_loop(A, i, tesla_boost) ==
  IF i > Len(self.tesla_folding.tesla_numbers) THEN tesla_boost
  ELSE tesla_boost_loop(A, i + 1,
         IF A % self.tesla_folding.tesla_numbers[i] = 0
         THEN FxMul(tesla_boost, self.tesla_folding.resonance_factor)
         ELSE tesla_boost)

\* the locals of apply_mhm_enhancement and its return value (ret)
enhancement_frame(Z, N, base_value) ==
  LET A                   == Z + N
      tesla_boost         == tesla_boost_loop(A, 1, Fx(1))
      golden_factor       == Fx(1) + FxMul(100, SinGolden(A))
      consciousness_boost == Fx(1) + FxMul(self.tesla_folding.consciousness_level, 200)
      error_correction    == self.tesla_folding.error_correction
      enhanced_value      ==
        FxMul(FxMul(FxMul(FxMul(base_value, tesla_boost), golden_factor),
                    consciousness_boost), error_correction)
  IN  [op |-> "apply_mhm_enhancement", Z |-> Z, N |-> N, A |-> A,
       base_value |-> base_value, tesla_boost |-> tesla_boost,
       golden_factor |-> golden_factor,
       consciousness_boost |-> consciousness_boost,
       ret |-> enhanced_value]

apply_mhm_enhancement(Z, N, base_value) == enhancement_frame(Z, N, base_value).ret

----------------------------------------------------------------------------
(* calculate_binding_energy *)

special_cases ==
  [k \in {<<1, 0>>, <<1, 1>>, <<1, 2>>, <<2, 1>>, <<2, 2>>} |->
     CASE k = <<1, 0>> -> 0
       [] k = <<1, 1>> -> 22250
       [] k = <<1, 2>> -> 84820
       [] k = <<2, 1>> -> 77180
       [] k = <<2, 2>> -> 282960]

\* the lookup with A < 4 for A <= 4
special_case_lookup_below_four(Z, N) ==
  IF Z + N < 4 /\ <<Z, N>> \in DOMAIN special_cases
  THEN [hit |-> TRUE, value |-> special_cases[<<Z, N>>]]
  ELSE [hit |-> FALSE, value |-> 0]

\* lines 79-88: whether the early return is taken (hit), and its value
special_case_lookup(Z, N) ==
  IF Z + N <= 4 /\ <<Z, N>> \in DOMAIN special_cases
  THEN [hit |-> TRUE, value |-> special_cases[<<Z, N>>]]
  ELSE [hit |-> FALSE, value |-> 0]

\* lines 97-102
pairing_term(Z, N) ==
  LET A == Z + N
  IN  IF N % 2 = 0 /\ Z % 2 = 0
      THEN (IF A > 0 THEN FxDiv(self.ap, Sqrt(A)) ELSE 0)
      ELSE IF N % 2 = 1 /\ Z % 2 = 1
      THEN (IF A > 0 THEN -FxDiv(self.ap, Sqrt(A)) ELSE 0)
      ELSE 0

\* lines 91-102: the five terms; the surface term is complex when A < 0
\* (surface is its real part, surface_im its imaginary part)
semi_empirical_terms(Z, N) ==
  LET A  == Z + N
      d2 == (N - Z) * (N - Z)
  IN  [volume     |-> self.av * A,
       surface    |-> -FxMul(self.as_, PowTwoThirds(A)),
       surface_im |-> -FxMul(self.as_, PowTwoThirdsIm(A)),
       coulomb    |-> IF A > 0 THEN -FxDiv(self.ac * Z * Z, PowOneThird(A)) ELSE 0,
       asymmetry  |-> IF A > 0
                      THEN -(self.aa * (d2 \div A) + (self.aa * (d2 % A)) \div A)
                      ELSE 0,
       pairing    |-> pairing_term(Z, N)]

\* no term has been computed
NoTerms ==
  [volume |-> 0, surface |-> 0, surface_im |-> 0, coulomb |-> 0,
   asymmetry |-> 0, pairing |-> 0]

\* line 105: the sum of the five terms (its real part)
semi_empirical(Z, N) ==
  LET t == semi_empirical_terms(Z, N)
  IN  t.volume + t.surface + t.coulomb + t.asymmetry + t.pairing

\* line 105: the imaginary part of the sum; 0 unless A < 0
semi_empirical_im(Z, N) == semi_empirical_terms(Z, N).surface_im

\* the scaling with A >= 16 for A > 16
heavy_scaling_from_16(A, binding_energy) ==
  IF A >= 16
  THEN FxMul(binding_energy,
             Fx(1) + FxMul(self.calibration.binding_energy_scale, Log(A)))
  ELSE binding_energy

\* lines 108-109
heavy_scaling(A, binding_energy) ==
  IF A > 16
  THEN FxMul(binding_energy,
             Fx(1) + FxMul(self.calibration.binding_energy_scale, Log(A)))
  ELSE binding_energy

\* calculate_binding_energy with the terms of lines 92-102 not guarded by
\* "if A > 0 else 0": the division of line 92 raises when A = 0
binding_energy_frame_unguarded(Z, N) ==
  LET A       == Z + N
      special == special_case_lookup(Z, N)
      terms   == semi_empirical_terms(Z, N)
      base    == semi_empirical(Z, N)
      scaled  == heavy_scaling(A, base)
  IN  IF special.hit
      THEN [op |-> "calculate_binding_energy", Z |-> Z, N |-> N, A |-> A,
            error |-> "none", returned_at |-> 88, terms |-> NoTerms,
            base |-> 0, scaled |-> 0,
            ret |-> special.value, ret_im |-> 0]
      ELSE IF A = 0
      THEN [op |-> "calculate_binding_energy", Z |-> Z, N |-> N, A |-> A,
            error |-> "ZeroDivisionError", returned_at |-> 92, terms |-> NoTerms,
            base |-> 0, scaled |-> 0, ret |-> 0, ret_im |-> 0]
      ELSE [op |-> "calculate_binding_energy", Z |-> Z, N |-> N, A |-> A,
            error |-> "none", returned_at |-> 114, terms |-> terms,
            base |-> base, scaled |-> scaled,
            ret |-> apply_mhm_enhancement(Z, N, scaled),
            ret_im |-> apply_mhm_enhancement(Z, N,
                         heavy_scaling(A, semi_empirical_im(Z, N)))]

\* the locals of calculate_binding_energy, the line of the return statement
\* it left by (returned_at) and its return value: ret, and ret_im for the
\* imaginary part of a complex return value (the factors of the scaling and
\* of the enhancement are real and multiply both parts).  No statement of
\* the method raises: error is always "none".
binding_energy_frame(Z, N) ==
  LET A       == Z + N
      special == special_case_lookup(Z, N)
      terms   == semi_empirical_terms(Z, N)
      base    == semi_empirical(Z, N)
      scaled  == heavy_scaling(A, base)
  IN  IF special.hit
      THEN [op |-> "calculate_binding_energy", Z |-> Z, N |-> N, A |-> A,
            error |-> "none", returned_at |-> 88, terms |-> NoTerms,
            base |-> 0, scaled |-> 0,
            ret |-> special.value, ret_im |-> 0]
      ELSE [op |-> "calculate_binding_energy", Z |-> Z, N |-> N, A |-> A,
            error |-> "none", returned_at |-> 114, terms |-> terms,
            base |-> base, scaled |-> scaled,
            ret |-> apply_mhm_enhancement(Z, N, scaled),
            ret_im |-> apply_mhm_enhancement(Z, N,
                         heavy_scaling(A, semi_empirical_im(Z, N)))]

calculate_binding_energy(Z, N) == binding_energy_frame(Z, N).ret

----------------------------------------------------------------------------
(* calculate_stability *)

known_stable ==
  [k \in {<<1, 0>>, <<1, 1>>, <<1, 2>>, <<2, 1>>, <<2, 2>>,
          <<6, 6>>, <<6, 8>>, <<8, 8>>} |->
     k \in {<<1, 1>>, <<2, 1>>, <<2, 2>>, <<6, 6>>, <<8, 8>>}]

\* lines 168-173
optimal_ratio(Z) ==
  IF Z <= 20 THEN Fx(1)
  ELSE IF Z <= 40 THEN Fx(1) + 150 * (Z - 20)
  ELSE Fx(1) + FxDivInt(6000 * (Z - 20), 60)

\* lines 193-198: the adjustment for the binding energy per nucleon
nucleon_adjustment(be_per_nucleon) ==
  IF be_per_nucleon > 85000 THEN 2000
  ELSE IF be_per_nucleon > 75000 THEN 1000
  ELSE IF be_per_nucleon < 60000 THEN -2000
  ELSE 0

\* lines 201-204
heavy_penalty(Z) ==
  (IF Z > 82 THEN 3000 ELSE 0) + (IF Z > 92 THEN 5000 ELSE 0)

\* the clamp left out
clamp_missing(stability) == stability

\* line 210
clamp(stability) == Max(0, Min(Fx(1), stability))

\* the rules with Z > 82 tested before the two ratio rules
decay_mode_alpha_first(Z, N, stability) ==
  IF stability > self.calibration.stability_threshold THEN "stable"
  ELSE IF Z > 82 THEN "alpha"
  ELSE IF Fx(N) > FxMul(Fx(Z), 15000) THEN "beta_minus"
  ELSE IF Fx(Z) > FxMul(Fx(N), 12000) THEN "beta_plus"
  ELSE "radioactive"

\* lines 213-222
decay_mode_of(Z, N, stability) ==
  IF stability > self.calibration.stability_threshold THEN "stable"
  ELSE IF Fx(N) > FxMul(Fx(Z), 15000) THEN "beta_minus"
  ELSE IF Fx(Z) > FxMul(Fx(N), 12000) THEN "beta_plus"
  ELSE IF Z > 82 THEN "alpha"
  ELSE "radioactive"

\* lines 165-186, Z # 0: the score after the magic number bonus and the
\* N/Z ratio penalty
ratio_score(Z, N) ==
  LET nz_ratio        == FxDivInt(Fx(N), Z)
      magic_bonus     == (IF Z \in self.magic_numbers THEN 2500 ELSE 0)
                         + (IF N \in self.magic_numbers THEN 2500 ELSE 0)
      ratio_deviation == Abs(nz_ratio - optimal_ratio(Z))
  IN  5000 + magic_bonus - FxMul(ratio_deviation, 3000)

\* lines 190-224: from the score of lines 176-186 and the binding energy of
\* line 189 to the returned pair
stability_finish(Z, N, stability_so_far, binding_energy) ==
  LET A              == Z + N
      be_per_nucleon == IF A > 0 THEN FxDivInt(binding_energy, A) ELSE 0
      summed         == stability_so_far
                        + nucleon_adjustment(be_per_nucleon) - heavy_penalty(Z)
      unclamped      == FxMul(summed,
                          Fx(1) + FxMul(self.tesla_folding.consciousness_level, 500))
      stability      == clamp(unclamped)
  IN  [op |-> "calculate_stability", Z |-> Z, N |-> N,
       error |-> "none", returned_at |-> 224,
       unclamped |-> unclamped, score |-> stability,
       decay_mode |-> decay_mode_of(Z, N, stability)]

\* lines 165-224; the division of line 165 raises when Z = 0
stability_heuristic(Z, N) ==
  IF Z = 0
  THEN [op |-> "calculate_stability", Z |-> Z, N |-> N,
        error |-> "ZeroDivisionError", returned_at |-> 165,
        unclamped |-> 0, score |-> 0, decay_mode |-> "none"]
  ELSE stability_finish(Z, N, ratio_score(Z, N), calculate_binding_energy(Z, N))

\* calculate_stability without the lookup in known_stable
calculate_stability_no_lookup(Z, N) ==
  IF Z = 0
  THEN [op |-> "calculate_stability", Z |-> Z, N |-> N,
        error |-> "none", returned_at |-> 163, unclamped |-> 0,
        score |-> 0, decay_mode |-> "impossible"]
  ELSE stability_heuristic(Z, N)

\* calculate_stability without the test Z == 0
calculate_stability_no_zero_test(Z, N) ==
  IF <<Z, N>> \in DOMAIN known_stable
  THEN [op |-> "calculate_stability", Z |-> Z, N |-> N,
        error |-> "none", returned_at |-> 159, unclamped |-> 0,
        score |-> IF known_stable[<<Z, N>>] THEN 8000 ELSE 3000,
        decay_mode |-> IF known_stable[<<Z, N>>] THEN "stable" ELSE "radioactive"]
  ELSE stability_heuristic(Z, N)

\* the return statement calculate_stability leaves by (returned_at), the
\* score before the clamp (unclamped) and the returned pair (score, decay_mode)
calculate_stability(Z, N) ==
  IF <<Z, N>> \in DOMAIN known_stable
  THEN [op |-> "calculate_stability", Z |-> Z, N |-> N,
        error |-> "none", returned_at |-> 159, unclamped |-> 0,
        score |-> IF known_stable[<<Z, N>>] THEN 8000 ELSE 3000,
        decay_mode |-> IF known_stable[<<Z, N>>] THEN "stable" ELSE "radioactive"]
  ELSE IF Z = 0
  THEN [op |-> "calculate_stability", Z |-> Z, N |-> N,
        error |-> "none", returned_at |-> 163, unclamped |-> 0,
        score |-> 0, decay_mode |-> "impossible"]
  ELSE stability_heuristic(Z, N)

----------------------------------------------------------------------------
(* find_medical_isotopes *)

\* (element, A) -> use
known_medical ==
  [k \in {<<"F", 18>>, <<"Tc", 99>>, <<"I", 131>>, <<"Co", 60>>,
          <<"Lu", 177>>, <<"Y", 90>>} |->
     CASE k = <<"F", 18>>   -> "PET imaging"
       [] k = <<"Tc", 99>>  -> "SPECT imaging"
       [] k = <<"I", 131>>  -> "Thyroid treatment"
       [] k = <<"Co", 60>>  -> "Radiation therapy"
       [] k = <<"Lu", 177>> -> "Cancer therapy"
       [] k = <<"Y", 90>>   -> "Liver cancer"]

\* element, Z; in the dict's insertion order
elements_to_check ==
  << <<"F", 9>>, <<"Tc", 43>>, <<"I", 53>>, <<"Co", 27>>, <<"Lu", 71>>,
     <<"Y", 39>>, <<"Re", 75>>, <<"Sm", 62>>, <<"Ho", 67>>, <<"Er", 68>> >>

\* line 250: range(Z - 10, Z + 20) starts at sweep_first
sweep_first(Z) == Z - 10

\* the window range(Z - 10, Z + 30)
sweep_stop_wide(Z) == Z + 30

\* the window with Z + 20 included
sweep_stop_inclusive(Z) == Z + 21

\* line 250: range(Z - 10, Z + 20) stops before sweep_stop
sweep_stop(Z) == Z + 20

\* np.exp(n) for n = 0, 1, ..., 10 (entry n+1), in units of 1/Scale
ExpTable ==
  <<10000, 27183, 73891, 200855, 545982, 1484132, 4034288, 10966332,
    29809580, 81030839, 220264658>>

\* np.exp(x) for a fixed-point x in [0, 11): exp of the integer part times
\* the Taylor polynomial of degree 7 of the fraction
Exp(x) ==
  LET f  == x % Scale
      t7 == Fx(1) + FxDivInt(f, 7)
      t6 == Fx(1) + FxDivInt(FxMul(f, t7), 6)
      t5 == Fx(1) + FxDivInt(FxMul(f, t6), 5)
      t4 == Fx(1) + FxDivInt(FxMul(f, t5), 4)
      t3 == Fx(1) + FxDivInt(FxMul(f, t4), 3)
      t2 == Fx(1) + FxDivInt(FxMul(f, t3), 2)
      t1 == Fx(1) + FxMul(f, t2)
  IN  FxMul(ExpTable[(x \div Scale) + 1], t1)

\* lines 270-273
half_life_hours_of(stability) ==
  IF stability > 0 THEN FxDivInt(Exp(10 * stability), 100) ELSE 1000

\* line 276: f"{element}-{A}"
symbol_of(element, A) == element \o "-" \o ToString(A)

\* the iteration without the assignment stability = 0.4 of line 267
sweep_iteration_unforced(list, element, Z, N) ==
  LET A              == Z + N
      classified     == calculate_stability(Z, N)
      binding_energy == calculate_binding_energy(Z, N)
      min_stab       == self.calibration.medical_range[1]
      max_stab       == self.calibration.medical_range[2]
      is_known       == <<element, A>> \in DOMAIN known_medical
      stability      == classified.score
  IN  IF (min_stab < classified.score /\ classified.score < max_stab) \/ is_known
      THEN Append(list,
             [symbol |-> symbol_of(element, A),
              Z |-> Z, N |-> N, A |-> A,
              stability |-> stability,
              decay_mode |-> classified.decay_mode,
              binding_energy |-> binding_energy,
              half_life_hours |-> half_life_hours_of(stability),
              is_known_medical |-> is_known,
              medical_use |-> IF is_known THEN known_medical[<<element, A>>]
                              ELSE "Research",
              mhm_optimized |-> TRUE])
      ELSE list

\* the criterion without the lower bound of the range
accepted_below_range(stability, is_known) ==
  stability < self.calibration.medical_range[2] \/ is_known

\* the criterion with the bounds of the range included
accepted_inclusive(stability, is_known) ==
  (self.calibration.medical_range[1] <= stability
     /\ stability <= self.calibration.medical_range[2])
  \/ is_known

\* line 263: the medical criterion
accepted(stability, is_known) ==
  (self.calibration.medical_range[1] < stability
     /\ stability < self.calibration.medical_range[2])
  \/ is_known

\* lines 250-288 for one (element, Z) and one N: the list after the iteration
sweep_iteration(list, element, Z, N) ==
  LET A              == Z + N
      classified     == calculate_stability(Z, N)
      binding_energy == calculate_binding_energy(Z, N)
      is_known       == <<element, A>> \in DOMAIN known_medical
      stability      == IF is_known THEN 4000 ELSE classified.score
  IN  IF accepted(classified.score, is_known)
      THEN Append(list,
             [symbol |-> symbol_of(element, A),
              Z |-> Z, N |-> N, A |-> A,
              stability |-> stability,
              decay_mode |-> classified.decay_mode,
              binding_energy |-> binding_energy,
              half_life_hours |-> half_life_hours_of(stability),
              is_known_medical |-> is_known,
              medical_use |-> IF is_known THEN known_medical[<<element, A>>]
                              ELSE "Research",
              mhm_optimized |-> TRUE])
      ELSE list

\* the key without the "not": known entries sort last
sort_key_known_last(x) == <<IF x.is_known_medical THEN 1 ELSE 0, Abs(x.stability - 4000)>>

\* line 291: the sort key (not is_known_medical, abs(stability - 0.4))
sort_key(x) == <<IF x.is_known_medical THEN 0 ELSE 1, Abs(x.stability - 4000)>>

key_less(a, b) == a[1] < b[1] \/ (a[1] = b[1] /\ a[2] < b[2])

\* the position of entry i of the list in a stable sort: behind the entries
\* with a smaller key and the earlier entries with an equal key
sort_position(list, i) ==
  1 + Cardinality({j \in 1..Len(list) :
        \/ key_less(sort_key(list[j]), sort_key(list[i]))
        \/ j < i /\ ~key_less(sort_key(list[i]), sort_key(list[j]))})

\* the list with entry i at the position paired with i
placed(list, positions) ==
  [p \in 1..Len(list) |-> list[(CHOOSE pair \in positions : pair[1] = p)[2]]]

\* line 291: list.sort(key=...), a stable sort
sort_by_relevance(list) ==
  placed(list, {<<sort_position(list, i), i>> : i \in 1..Len(list)})

\* the slice [:21]
truncate_21(list) == SubSeq(list, 1, Min(21, Len(list)))

\* line 293: medical_isotopes[:20]
truncate(list) == SubSeq(list, 1, Min(20, Len(list)))

----------------------------------------------------------------------------
(* validate_against_known_values *)

\* lines 303-316: the (Z, N) of a name, or no parse (the loop continues)
parse_isotope(isotope_name) ==
  CASE isotope_name = "He-4"  -> [ok |-> TRUE, Z |-> 2, N |-> 2]
    [] isotope_name = "C-12"  -> [ok |-> TRUE, Z |-> 6, N |-> 6]
    [] isotope_name = "O-16"  -> [ok |-> TRUE, Z |-> 8, N |-> 8]
    [] isotope_name = "Fe-56" -> [ok |-> TRUE, Z |-> 26, N |-> 30]
    [] isotope_name = "U-235" -> [ok |-> TRUE, Z |-> 92, N |-> 143]
    [] isotope_name = "U-238" -> [ok |-> TRUE, Z |-> 92, N |-> 146]
    [] OTHER                  -> [ok |-> FALSE, Z |-> 0, N |-> 0]

\* the error without abs()
error_percent_signed(calculated_be, real_be) ==
  FxMul(FxDiv(calculated_be - real_be, real_be), Fx(100))

\* line 320
error_percent_of(calculated_be, real_be) ==
  FxMul(FxDiv(Abs(calculated_be - real_be), real_be), Fx(100))

RECURSIVE sum_error_percent(_, _)
sum_error_percent(results, i) ==
  IF i > Len(results) THEN 0
  ELSE results[i].error_percent + sum_error_percent(results, i + 1)

\* line 333: np.mean
mean_error_percent(results) ==
  FxDivInt(sum_error_percent(results, 1), Len(results))

----------------------------------------------------------------------------
(* generate_optimized_report *)

\* line 351: the number of entries flagged is_known_medical
known_medical_found(found_isotopes) ==
  Cardinality({i \in 1..Len(found_isotopes) : found_isotopes[i].is_known_medical})

\* the format .1f of a fixed-point number: its value in tenths, rounded
format_1f(x) == Sgn(x) * ((Abs(x) + 500) \div 1000)

\* line 376: known_medical_found/6*100 as printed, in tenths of a percent
identification_accuracy(found) ==
  format_1f(FxMul(FxDivInt(Fx(found), 6), Fx(100)))

----------------------------------------------------------------------------
(* NuclearDataValidator.validate_isotope_finder_predictions *)

\* the keys of the table of download_nist_atomic_masses
nist_masses ==
  {"H-1", "H-2", "H-3", "He-3", "He-4", "Li-6", "Li-7", "Be-9", "B-10", "B-11",
   "C-12", "C-13", "C-14", "N-14", "N-15", "O-16", "O-17", "O-18", "F-19",
   "Ne-20", "Ne-21", "Ne-22", "F-18", "Tc-99m", "I-131", "Co-60",
   "U-235", "U-238", "Pu-239", "Pu-240"}

\* the table of download_binding_energies, as pairs (isotope, MeV)
binding_energies ==
  {<<"H-1", 0>>, <<"H-2", 22250>>, <<"H-3", 84820>>, <<"He-3", 77180>>,
   <<"He-4", 282960>>, <<"Li-6", 319950>>, <<"Li-7", 392450>>, <<"Be-9", 581650>>,
   <<"B-10", 647510>>, <<"B-11", 762050>>, <<"C-12", 921620>>, <<"C-13", 971080>>,
   <<"C-14", 1052850>>, <<"N-14", 1046590>>, <<"N-15", 1154920>>,
   <<"O-16", 1276190>>, <<"O-17", 1317630>>, <<"O-18", 1398080>>,
   <<"F-19", 1478010>>, <<"Ne-20", 1606450>>, <<"Ne-21", 1674060>>,
   <<"Ne-22", 1777720>>, <<"F-18", 1373690>>, <<"Tc-99m", 8610000>>,
   <<"I-131", 10720000>>, <<"Co-60", 5248000>>, <<"U-235", 17839000>>,
   <<"U-238", 18017000>>, <<"Pu-239", 18069000>>, <<"Pu-240", 18141000>>}

\* binding_data['total_binding_energy']: its keys and its lookup
total_binding_energy_keys == {entry[1] : entry \in binding_energies}

total_binding_energy(isotope_name) ==
  (CHOOSE entry \in binding_energies : entry[1] = isotope_name)[2]

proton_magic_numbers == {2, 8, 20, 28, 50, 82}

neutron_magic_numbers == {2, 8, 20, 28, 50, 82, 126}

\* the keys of the three categories of download_medical_isotopes
medical_data ==
  {{"F-18", "Tc-99m", "I-123"}, {"I-131", "Lu-177", "Y-90"}, {"C-11", "N-13"}}

\* the guard that lets every reference value through
reference_usable_always(real_be) == TRUE

\* line 298: if real_be > 0
reference_usable(real_be) == real_be > 0

\* lines 276-284: the counters before the loop
validation_start(predictions) ==
  [error |-> "none",
   total_predictions |-> Len(predictions),
   validated_against_nist |-> 0,
   binding_energy_accuracy |-> <<>>,
   magic_number_predictions |-> 0,
   medical_isotope_matches |-> 0,
   novel_discoveries |-> <<>>]

\* lines 286-324: the body of the loop for one prediction; the division of
\* line 299 raises when real_be is 0
validation_step(results, prediction) ==
  LET isotope_name == prediction.name
      in_nist      == isotope_name \in nist_masses
      compared     == in_nist /\ isotope_name \in total_binding_energy_keys
      real_be      == IF compared THEN total_binding_energy(isotope_name) ELSE 0
      predicted_be == prediction.binding_energy
      divides      == compared /\ reference_usable(real_be)
      Z            == prediction.Z
      N            == prediction.N
  IN  IF divides /\ real_be = 0
      THEN [results EXCEPT !.error = "ZeroDivisionError"]
      ELSE [results EXCEPT
              !.validated_against_nist = IF in_nist THEN @ + 1 ELSE @,
              !.binding_energy_accuracy =
                 IF divides
                 THEN Append(@, Fx(1) - FxDiv(Abs(predicted_be - real_be), real_be))
                 ELSE @,
              !.magic_number_predictions =
                 IF Z \in proton_magic_numbers \/ N \in neutron_magic_numbers
                 THEN @ + 1 ELSE @,
              !.medical_isotope_matches =
                 IF \E category \in medical_data : isotope_name \in category
                 THEN @ + 1 ELSE @,
              !.novel_discoveries =
                 IF ~in_nist /\ prediction.discovery_score > 5000
                 THEN Append(@, [isotope |-> isotope_name, Z |-> Z, N |-> N,
                                 discovery_score |-> prediction.discovery_score])
                 ELSE @]

\* lines 286-324: the loop over predictions[i..]; it ends at a raise
RECURSIVE validation_loop(_, _, _)
validation_loop(results, predictions, i) ==
  IF i > Len(predictions) \/ results.error # "none"
  THEN results
  ELSE validation_loop(validation_step(results, predictions[i]), predictions, i + 1)

\* the sum of a list of accuracies
RECURSIVE sum_accuracy(_, _)
sum_accuracy(list, i) ==
  IF i > Len(list) THEN 0 ELSE list[i] + sum_accuracy(list, i + 1)

\* lines 267-339: what the call hands back, its return value or the error
\* it raised; the division of line 332 raises for an empty list
validate_isotope_finder_predictions(predictions) ==
  LET results == validation_loop(validation_start(predictions), predictions, 1)
      counted == results.binding_energy_accuracy
  IN  IF results.error # "none"
      THEN [kind |-> "raised", error |-> results.error, raised_at |-> 299,
            predictions |-> predictions]
      ELSE IF results.total_predictions = 0
      THEN [kind |-> "raised", error |-> "ZeroDivisionError", raised_at |-> 332,
            predictions |-> predictions]
      ELSE [kind |-> "validate_isotope_finder_predictions",
            predictions |-> predictions,
            total_predictions |-> results.total_predictions,
            validated_against_nist |-> results.validated_against_nist,
            binding_energy_accuracy |-> counted,
            magic_number_predictions |-> results.magic_number_predictions,
            medical_isotope_matches |-> results.medical_isotope_matches,
            novel_discoveries |-> results.novel_discoveries,
            has_binding_energy_accuracy |-> counted # <<>>,
            avg_accuracy |-> IF counted # <<>>
                             THEN FxDivInt(sum_accuracy(counted, 1), Len(counted))
                             ELSE 0,
            nist_validation_rate |->
              FxDivInt(Fx(results.validated_against_nist), results.total_predictions)]

\* the predictions the validator is handed: dictionaries with the keys it
\* reads; the last one is the empty dictionary, read by the defaults
Predictions ==
  {[name |-> "H-1", Z |-> 1, N |-> 0, binding_energy |-> 0, discovery_score |-> 0],
   [name |-> "He-4", Z |-> 2, N |-> 2, binding_energy |-> 282960, discovery_score |-> 0],
   [name |-> "F-18", Z |-> 9, N |-> 9, binding_energy |-> 1500000, discovery_score |-> 0],
   [name |-> "I-131", Z |-> 53, N |-> 78, binding_energy |-> 32160000,
    discovery_score |-> 3000],
   [name |-> "Tc-99", Z |-> 43, N |-> 56, binding_energy |-> 8500000,
    discovery_score |-> 8000],
   [name |-> "", Z |-> 0, N |-> 0, binding_energy |-> 0, discovery_score |-> 0]}

\* the lists of at most MaxPredictions predictions
PredictionLists ==
  UNION {[1..n -> Predictions] : n \in 0..MaxPredictions}

----------------------------------------------------------------------------
(* The finder as a state machine *)

NoFrame == [op |-> "none"]

NothingReturned == [kind |-> "none"]

\* the threads that query the one instance, and the queries they make
Threads == 1..NumThreads

SharedQueries ==
  {<<2, 2>>, <<6, 6>>, <<9, 9>>, <<27, 33>>, <<0, 5>>}

IdleThread == [pc |-> "idle"]

Init ==
  /\ self = Constructed
  /\ pc = "idle"
  /\ frame = NoFrame
  /\ elem_index = 0
  /\ sweep_N = 0
  /\ medical_isotopes = <<>>
  /\ val_index = 0
  /\ validation_results = <<>>
  /\ returned = NothingReturned
  /\ evaluated = <<>>
  /\ threads = [t \in Threads |-> IdleThread]

\* no thread is inside a query
ThreadsIdle == \A t \in Threads : threads[t].pc = "idle"

\* a direct query runs to its return; no loop of the other methods is running
LoopsIdle ==
  /\ pc' = "returned"
  /\ elem_index' = 0
  /\ sweep_N' = 0
  /\ medical_isotopes' = <<>>
  /\ val_index' = 0
  /\ validation_results' = <<>>
  /\ returned' = NothingReturned
  /\ evaluated' = <<>>
  /\ UNCHANGED threads

\* a call of calculate_binding_energy(Z, N), any Z and N within the bounds
CalculateBindingEnergy ==
  /\ pc = "idle"
  /\ ThreadsIdle
  /\ \E Z \in (-NegDepth)..MaxZ, N \in (-NegDepth)..MaxN :
       frame' = binding_energy_frame(Z, N)
  /\ LoopsIdle
  /\ UNCHANGED self

\* a call of calculate_stability(Z, N), any Z and N within the bounds
CalculateStability ==
  /\ pc = "idle"
  /\ ThreadsIdle
  /\ \E Z \in (-NegDepth)..MaxZ, N \in (-NegDepth)..MaxN :
       frame' = calculate_stability(Z, N)
  /\ LoopsIdle
  /\ UNCHANGED self

\* the base values the enhancement layer is queried with: 100.0 and 15.75 * A
BaseValues(Z, N) == {Fx(100), self.av * (Z + N)}

\* apply_mhm_enhancement that also raises the consciousness level it read
ApplyMhmEnhancement_evolving ==
  /\ pc = "idle"
  /\ ThreadsIdle
  /\ \E Z \in (-NegDepth)..MaxZ, N \in (-NegDepth)..MaxN :
       \E base_value \in BaseValues(Z, N) :
         frame' = enhancement_frame(Z, N, base_value)
  /\ LoopsIdle
  /\ self' = [self EXCEPT !.tesla_folding.consciousness_level = Min(Fx(1), @ + 100)]

\* a call of apply_mhm_enhancement(Z, N, base_value)
ApplyMhmEnhancement ==
  /\ pc = "idle"
  /\ ThreadsIdle
  /\ \E Z \in (-NegDepth)..MaxZ, N \in (-NegDepth)..MaxN :
       \E base_value \in BaseValues(Z, N) :
         frame' = enhancement_frame(Z, N, base_value)
  /\ LoopsIdle
  /\ UNCHANGED self

\* find_medical_isotopes, lines 228-248: entering the loops
FindMedicalIsotopesEnter ==
  /\ pc = "idle"
  /\ ThreadsIdle
  /\ pc' = "find_medical_isotopes"
  /\ frame' = NoFrame
  /\ medical_isotopes' = <<>>
  /\ evaluated' = <<>>
  /\ elem_index' = 1
  /\ sweep_N' = sweep_first(elements_to_check[1][2])
  /\ val_index' = 0
  /\ validation_results' = <<>>
  /\ returned' = NothingReturned
  /\ UNCHANGED <<self, threads>>

\* find_medical_isotopes, lines 250-288: one iteration of the inner loop
FindMedicalIsotopesIterate ==
  /\ pc = "find_medical_isotopes"
  /\ elem_index <= Len(elements_to_check)
  /\ LET element == elements_to_check[elem_index][1]
         Z       == elements_to_check[elem_index][2]
     IN  /\ medical_isotopes' = sweep_iteration(medical_isotopes, element, Z, sweep_N)
         /\ evaluated' = Append(evaluated, <<Z, sweep_N>>)
         /\ IF sweep_N + 1 < sweep_stop(Z)
            THEN /\ sweep_N' = sweep_N + 1
                 /\ elem_index' = elem_index
            ELSE /\ elem_index' = elem_index + 1
                 /\ sweep_N' = IF elem_index < Len(elements_to_check)
                               THEN sweep_first(elements_to_check[elem_index + 1][2])
                               ELSE 0
  /\ UNCHANGED <<self, pc, frame, val_index, validation_results, returned, threads>>

\* find_medical_isotopes, lines 291-293: sort, truncate and return
FindMedicalIsotopesReturn ==
  /\ pc = "find_medical_isotopes"
  /\ elem_index > Len(elements_to_check)
  /\ LET sorted == sort_by_relevance(medical_isotopes)
     IN  /\ medical_isotopes' = sorted
         /\ returned' = [kind |-> "find_medical_isotopes", value |-> truncate(sorted)]
  /\ pc' = "returned"
  /\ UNCHANGED <<self, frame, elem_index, sweep_N, val_index, validation_results,
                 evaluated, threads>>

\* validate_against_known_values, lines 297-301: entering the loop
ValidateEnter ==
  /\ pc = "idle"
  /\ ThreadsIdle
  /\ pc' = "validate_against_known_values"
  /\ frame' = NoFrame
  /\ validation_results' = <<>>
  /\ val_index' = 1
  /\ elem_index' = 0
  /\ sweep_N' = 0
  /\ medical_isotopes' = <<>>
  /\ evaluated' = <<>>
  /\ returned' = NothingReturned
  /\ UNCHANGED <<self, threads>>

\* validate_against_known_values, lines 301-331: one iteration of the loop
ValidateIterate ==
  /\ pc = "validate_against_known_values"
  /\ val_index <= Len(self.known_binding_energies)
  /\ LET isotope_name  == self.known_binding_energies[val_index][1]
         real_be       == self.known_binding_energies[val_index][2]
         parsed        == parse_isotope(isotope_name)
         calculated_be == calculate_binding_energy(parsed.Z, parsed.N)
     IN  IF ~parsed.ok
         THEN /\ val_index' = val_index + 1
              /\ UNCHANGED <<pc, validation_results, returned>>
         ELSE IF real_be = 0
         THEN /\ returned' = [kind |-> "raised", error |-> "ZeroDivisionError"]
              /\ pc' = "returned"
              /\ UNCHANGED <<val_index, validation_results>>
         ELSE /\ validation_results' =
                   Append(validation_results,
                     [isotope |-> isotope_name, real_be |-> real_be,
                      calculated_be |-> calculated_be,
                      error_percent |-> error_percent_of(calculated_be, real_be)])
              /\ val_index' = val_index + 1
              /\ UNCHANGED <<pc, returned>>
  /\ UNCHANGED <<self, frame, elem_index, sweep_N, medical_isotopes, evaluated, threads>>

\* validate_against_known_values, lines 333-339: average and return
ValidateReturn ==
  /\ pc = "validate_against_known_values"
  /\ val_index > Len(self.known_binding_energies)
  /\ returned' =
       IF validation_results = <<>>
       THEN [kind |-> "validate_against_known_values",
             results |-> validation_results, average_error |-> "nan"]
       ELSE [kind |-> "validate_against_known_values",
             results |-> validation_results,
             average_error |-> mean_error_percent(validation_results)]
  /\ pc' = "returned"
  /\ UNCHANGED <<self, frame, elem_index, sweep_N, medical_isotopes,
                 val_index, validation_results, evaluated, threads>>

\* a call of validate_isotope_finder_predictions(predictions)
ValidatePredictions ==
  /\ pc = "idle"
  /\ ThreadsIdle
  /\ \E predictions \in PredictionLists :
       returned' = validate_isotope_finder_predictions(predictions)
  /\ pc' = "returned"
  /\ frame' = NoFrame
  /\ elem_index' = 0
  /\ sweep_N' = 0
  /\ medical_isotopes' = <<>>
  /\ val_index' = 0
  /\ validation_results' = <<>>
  /\ evaluated' = <<>>
  /\ UNCHANGED <<self, threads>>

\* the caller has taken the result: the locals of the finished call are gone,
\* the instance is ready for the next call
CallerContinues ==
  /\ pc = "returned"
  /\ pc' = "idle"
  /\ frame' = NoFrame
  /\ elem_index' = 0
  /\ sweep_N' = 0
  /\ medical_isotopes' = <<>>
  /\ val_index' = 0
  /\ validation_results' = <<>>
  /\ evaluated' = <<>>
  /\ returned' = NothingReturned
  /\ UNCHANGED <<self, threads>>

----------------------------------------------------------------------------
(* Queries from several threads on the one instance.  A query is cut where
   it reads the instance again; the steps of different threads interleave. *)

\* what the steps of the threads leave alone
MainIdle ==
  /\ pc = "idle"
  /\ UNCHANGED <<pc, frame, elem_index, sweep_N, medical_isotopes,
                 val_index, validation_results, returned, evaluated>>

\* thread t calls calculate_binding_energy or calculate_stability
ThreadCall(t) ==
  /\ threads[t].pc = "idle"
  /\ \E op \in {"calculate_binding_energy", "calculate_stability"} :
       \E query \in SharedQueries :
         threads' = [threads EXCEPT ![t] =
                       [pc |-> "called", op |-> op, Z |-> query[1], N |-> query[2],
                        partial |-> 0, binding_energy |-> 0,
                        ret |-> 0, decay_mode |-> "none"]]
  /\ MainIdle
  /\ UNCHANGED self

\* calculate_binding_energy, lines 76-102, that keeps the scale of its nuclide
\* on the instance
ThreadBindingFormula_shared_scale(t) ==
  /\ threads[t].pc = "called"
  /\ threads[t].op = "calculate_binding_energy"
  /\ LET Z       == threads[t].Z
         N       == threads[t].N
         special == special_case_lookup(Z, N)
     IN  /\ threads' = [threads EXCEPT ![t] =
                 IF special.hit
                 THEN [@ EXCEPT !.pc = "returned", !.ret = special.value]
                 ELSE [@ EXCEPT !.pc = "scaling", !.partial = semi_empirical(Z, N)]]
         /\ self' = [self EXCEPT !.calibration.binding_energy_scale =
                                    IF Z + N > 16 THEN 1500 ELSE 0]
  /\ MainIdle

\* calculate_binding_energy, lines 76-102: the early return or the formula
ThreadBindingFormula(t) ==
  /\ threads[t].pc = "called"
  /\ threads[t].op = "calculate_binding_energy"
  /\ LET Z       == threads[t].Z
         N       == threads[t].N
         special == special_case_lookup(Z, N)
     IN  threads' = [threads EXCEPT ![t] =
           IF special.hit
           THEN [@ EXCEPT !.pc = "returned", !.ret = special.value]
           ELSE [@ EXCEPT !.pc = "scaling", !.partial = semi_empirical(Z, N)]]
  /\ MainIdle
  /\ UNCHANGED self

\* calculate_binding_energy, lines 105-114: scaling, enhancement and return
ThreadBindingScale(t) ==
  /\ threads[t].pc = "scaling"
  /\ LET Z == threads[t].Z
         N == threads[t].N
     IN  threads' = [threads EXCEPT ![t] =
           [@ EXCEPT !.pc = "returned",
                     !.ret = apply_mhm_enhancement(Z, N,
                               heavy_scaling(Z + N, threads[t].partial))]]
  /\ MainIdle
  /\ UNCHANGED self

\* calculate_stability, lines 143-186: the early returns or the ratio score
ThreadStabilityRatio(t) ==
  /\ threads[t].pc = "called"
  /\ threads[t].op = "calculate_stability"
  /\ LET Z     == threads[t].Z
         N     == threads[t].N
         early == calculate_stability(Z, N)
     IN  threads' = [threads EXCEPT ![t] =
           IF <<Z, N>> \in DOMAIN known_stable \/ Z = 0
           THEN [@ EXCEPT !.pc = "returned", !.ret = early.score,
                          !.decay_mode = early.decay_mode]
           ELSE [@ EXCEPT !.pc = "binding", !.partial = ratio_score(Z, N)]]
  /\ MainIdle
  /\ UNCHANGED self

\* calculate_stability, line 189: the nested call of calculate_binding_energy
ThreadStabilityBinding(t) ==
  /\ threads[t].pc = "binding"
  /\ threads' = [threads EXCEPT ![t] =
       [@ EXCEPT !.pc = "finishing",
                 !.binding_energy =
                    calculate_binding_energy(threads[t].Z, threads[t].N)]]
  /\ MainIdle
  /\ UNCHANGED self

\* calculate_stability, lines 190-224: adjustments, clamp, decay mode, return
ThreadStabilityFinish(t) ==
  /\ threads[t].pc = "finishing"
  /\ LET finished == stability_finish(threads[t].Z, threads[t].N,
                        threads[t].partial, threads[t].binding_energy)
     IN  threads' = [threads EXCEPT ![t] =
           [@ EXCEPT !.pc = "returned", !.ret = finished.score,
                     !.decay_mode = finished.decay_mode]]
  /\ MainIdle
  /\ UNCHANGED self

\* thread t has taken its result and is ready for its next query
ThreadContinues(t) ==
  /\ threads[t].pc = "returned"
  /\ threads' = [threads EXCEPT ![t] = IdleThread]
  /\ MainIdle
  /\ UNCHANGED self

Next ==
  \/ CalculateBindingEnergy
  \/ CalculateStability
  \/ ApplyMhmEnhancement
  \/ FindMedicalIsotopesEnter
  \/ FindMedicalIsotopesIterate
  \/ FindMedicalIsotopesReturn
  \/ ValidateEnter
  \/ ValidateIterate
  \/ ValidateReturn
  \/ ValidatePredictions
  \/ CallerContinues
  \/ \E t \in Threads :
       \/ ThreadCall(t)
       \/ ThreadBindingFormula(t)
       \/ ThreadBindingScale(t)
       \/ ThreadStabilityRatio(t)
       \/ ThreadStabilityBinding(t)
       \/ ThreadStabilityFinish(t)
       \/ ThreadContinues(t)

Spec == Init /\ [][Next]_vars

\* the control of the loops of lines 248-250: the inner loop passes its next
\* pair to calculate_stability
SearchAdvances ==
  /\ pc = "find_medical_isotopes"
  /\ elem_index <= Len(elements_to_check)
  /\ evaluated' = Append(evaluated, <<elements_to_check[elem_index][2], sweep_N>>)

\* the control after the loops: the method reaches its return statement
SearchReturns ==
  /\ pc = "find_medical_isotopes"
  /\ elem_index > Len(elements_to_check)
  /\ pc' = "returned"

\* a started search runs on: the method has no await, no lock and no input,
\* so its next iteration and then its return are taken
FairSpec ==
  Spec /\ WF_evaluated(SearchAdvances) /\ WF_pc(SearchReturns)

----------------------------------------------------------------------------
(* Properties *)

LightNuclideKeys == {<<1, 0>>, <<1, 1>>, <<1, 2>>, <<2, 1>>, <<2, 2>>}

\* C1: calculate_binding_energy returns the literal 0.0, 2.225, 8.482, 7.718,
\* 28.296 for (1,0), (1,1), (1,2), (2,1), (2,2), leaving by the early return
\* (no scaling, no enhancement); for every other (Z, N) it returns the formula
\* value, scaled for heavy nuclei, passed through apply_mhm_enhancement.
C1_OverrideLiteralElseEnhanced ==
  frame.op = "calculate_binding_energy" =>
    LET k == <<frame.Z, frame.N>>
    IN  /\ k = <<1, 0>> => frame.ret = 0 /\ frame.returned_at = 88
        /\ k = <<1, 1>> => frame.ret = 22250 /\ frame.returned_at = 88
        /\ k = <<1, 2>> => frame.ret = 84820 /\ frame.returned_at = 88
        /\ k = <<2, 1>> => frame.ret = 77180 /\ frame.returned_at = 88
        /\ k = <<2, 2>> => frame.ret = 282960 /\ frame.returned_at = 88
        /\ k \notin LightNuclideKeys =>
             /\ frame.returned_at = 114
             /\ frame.ret = apply_mhm_enhancement(frame.Z, frame.N,
                              heavy_scaling(frame.A, semi_empirical(frame.Z, frame.N)))

\* He-4 was queried and 28.296 came back, which the formula does not give
C1_Witness ==
  /\ frame.op = "calculate_binding_energy"
  /\ frame.Z = 2 /\ frame.N = 2
  /\ frame.ret = 282960
  /\ apply_mhm_enhancement(2, 2, heavy_scaling(4, semi_empirical(2, 2))) # 282960

StableKeys == {<<1, 1>>, <<2, 1>>, <<2, 2>>, <<6, 6>>, <<8, 8>>}

RadioactiveKeys == {<<1, 0>>, <<1, 2>>, <<6, 8>>}

\* C2: for the 8 keys of known_stable, calculate_stability returns
\* (0.8, "stable") when the key is marked stable and (0.3, "radioactive")
\* otherwise, leaving by the return of line 159, before any heuristic step.
C2_StabilityOverride ==
  frame.op = "calculate_stability" =>
    LET k == <<frame.Z, frame.N>>
    IN  /\ k \in StableKeys =>
             /\ frame.score = 8000 /\ frame.decay_mode = "stable"
             /\ frame.returned_at = 159 /\ frame.error = "none"
        /\ k \in RadioactiveKeys =>
             /\ frame.score = 3000 /\ frame.decay_mode = "radioactive"
             /\ frame.returned_at = 159 /\ frame.error = "none"

\* C-12 was queried, (0.8, "stable") came back; the heuristic gives another score
C2_Witness ==
  /\ frame.op = "calculate_stability"
  /\ frame.Z = 6 /\ frame.N = 6
  /\ frame.score = 8000 /\ frame.decay_mode = "stable"
  /\ stability_heuristic(6, 6).score # 8000

\* C3: calculate_stability(0, N), N > 0, raises nothing: it returns
\* (0.0, "impossible") by the return of line 163, before N / Z is computed.
C3_ZeroProtonsSentinel ==
  (frame.op = "calculate_stability" /\ frame.Z = 0 /\ frame.N > 0) =>
    /\ frame.error = "none"
    /\ frame.returned_at = 163
    /\ frame.score = 0
    /\ frame.decay_mode = "impossible"

C3_Witness ==
  /\ frame.op = "calculate_stability"
  /\ frame.Z = 0 /\ frame.N = 5
  /\ frame.score = 0 /\ frame.decay_mode = "impossible"

\* C4: for Z >= 1 and N >= 0 the score calculate_stability returns is in [0, 1].
C4_ScoreInUnitInterval ==
  (frame.op = "calculate_stability" /\ frame.Z >= 1 /\ frame.N >= 0) =>
    /\ frame.error = "none"
    /\ 0 <= frame.score
    /\ frame.score <= Fx(1)

\* a heuristic score above 1 before the clamp, returned as 1
C4_Witness ==
  /\ frame.op = "calculate_stability"
  /\ frame.Z >= 1
  /\ frame.returned_at = 224
  /\ frame.unclamped > Fx(1)
  /\ frame.score = Fx(1)

\* C5: find_medical_isotopes returns at most 20 entries: the first
\* min(20, number of accepted candidates) entries of the sorted list.
C5_AtMostTwenty ==
  returned.kind = "find_medical_isotopes" =>
    /\ Len(returned.value) <= 20
    /\ Len(returned.value) = Min(20, Len(medical_isotopes))
    /\ returned.value = SubSeq(medical_isotopes, 1, Len(returned.value))

\* more than 20 candidates were accepted and 20 were returned
C5_Witness ==
  /\ returned.kind = "find_medical_isotopes"
  /\ Len(medical_isotopes) > 20
  /\ Len(returned.value) = 20

\* C6: every returned entry with is_known_medical has stability exactly 0.4,
\* whatever calculate_stability computed; every other returned entry has the
\* stability calculate_stability computed.
C6_KnownPinned ==
  returned.kind = "find_medical_isotopes" =>
    \A i \in 1..Len(returned.value) :
      LET x == returned.value[i]
      IN  IF x.is_known_medical
          THEN x.stability = 4000
          ELSE x.stability = calculate_stability(x.Z, x.N).score

\* a known entry pinned to 0.4 although its computed score differs, and an
\* entry that is not known
C6_Witness ==
  /\ returned.kind = "find_medical_isotopes"
  /\ \E i \in 1..Len(returned.value) :
       /\ returned.value[i].is_known_medical
       /\ returned.value[i].stability = 4000
       /\ calculate_stability(returned.value[i].Z, returned.value[i].N).score # 4000
  /\ \E i \in 1..Len(returned.value) : ~returned.value[i].is_known_medical

Distance(x) == Abs(x.stability - 4000)

\* d sorts strictly before k
SortsBefore(d, k) ==
  \/ d.is_known_medical /\ ~k.is_known_medical
  \/ d.is_known_medical = k.is_known_medical /\ Distance(d) < Distance(k)

Ranked(kept) ==
  \A i, j \in 1..Len(kept) :
    i < j =>
      /\ kept[j].is_known_medical => kept[i].is_known_medical
      /\ kept[i].is_known_medical = kept[j].is_known_medical =>
           Distance(kept[i]) <= Distance(kept[j])

\* C7: in the returned list the known entries precede the others and within
\* each group |stability - 0.4| is non-decreasing; no accepted candidate that
\* was dropped sorts strictly before one that was kept.
C7_RankedBeforeTruncation ==
  [][(pc = "find_medical_isotopes" /\ pc' = "returned") =>
       LET kept == returned'.value
       IN  /\ Ranked(kept)
           /\ \A i \in 1..Len(medical_isotopes) :
                (\A k \in 1..Len(kept) : kept[k] # medical_isotopes[i]) =>
                  \A k \in 1..Len(kept) : ~SortsBefore(medical_isotopes[i], kept[k])]_vars

\* the returned list holds known and other entries, candidates were dropped,
\* and the first returned entry was not the first one collected
C7_Witness ==
  /\ returned.kind = "find_medical_isotopes"
  /\ Len(medical_isotopes) > Len(returned.value)
  /\ \E i \in 1..Len(returned.value) : returned.value[i].is_known_medical
  /\ \E i \in 1..Len(returned.value) : ~returned.value[i].is_known_medical
  /\ \E i, j \in 1..Len(returned.value) :
       /\ i < j
       /\ ~returned.value[i].is_known_medical
       /\ Distance(returned.value[i]) < Distance(returned.value[j])

ReferenceIsotopes ==
  << <<"He-4", 2, 2>>, <<"C-12", 6, 6>>, <<"O-16", 8, 8>>,
     <<"Fe-56", 26, 30>>, <<"U-235", 92, 143>>, <<"U-238", 92, 146>> >>

\* C8: validate_against_known_values returns exactly 6 records, for He-4, C-12,
\* O-16, Fe-56, U-235, U-238 at (2,2), (6,6), (8,8), (26,30), (92,143),
\* (92,146), each with error_percent = |calculated - real| / real * 100, and
\* average_error is the sum of the 6 error_percent values divided by 6.
C8_SixRecordsAndMean ==
  returned.kind = "validate_against_known_values" =>
    LET r == returned.results
    IN  /\ Len(r) = 6
        /\ \A i \in 1..6 :
             /\ r[i].isotope = ReferenceIsotopes[i][1]
             /\ r[i].calculated_be =
                  calculate_binding_energy(ReferenceIsotopes[i][2], ReferenceIsotopes[i][3])
             /\ r[i].error_percent =
                  FxMul(FxDiv(Abs(r[i].calculated_be - r[i].real_be), r[i].real_be), Fx(100))
        /\ returned.average_error =
             FxDivInt(r[1].error_percent + r[2].error_percent + r[3].error_percent
                      + r[4].error_percent + r[5].error_percent + r[6].error_percent, 6)

\* the validation returned, with an estimate below and one above its reference
C8_Witness ==
  /\ returned.kind = "validate_against_known_values"
  /\ Len(returned.results) = 6
  /\ \E i \in 1..6 : returned.results[i].calculated_be < returned.results[i].real_be
  /\ \E i \in 1..6 : returned.results[i].calculated_be > returned.results[i].real_be
  /\ returned.average_error > 0

\* the number of moduli among 3, 6, 9 that divide A
TeslaExponent(A) ==
  IF A % 3 # 0 THEN 0
  ELSE IF A % 18 = 0 THEN 3
  ELSE IF A % 6 = 0 \/ A % 9 = 0 THEN 2
  ELSE 1

\* 1.05 ** k to four decimals: 1, 1.05, 1.1025, 1.1576
ResonancePower(k) ==
  CASE k = 0 -> 10000
    [] k = 1 -> 10500
    [] k = 2 -> 11025
    [] k = 3 -> 11576

\* C9: tesla_boost is resonance_factor to the number of moduli in {3, 6, 9}
\* that divide A: exponent 0 when 3 does not divide A, 1 when only 3 does, 2
\* when exactly one of 6 and 9 also does, 3 when 18 divides A.
C9_TeslaBoostStacks ==
  frame.op = "apply_mhm_enhancement" =>
    /\ frame.tesla_boost = ResonancePower(TeslaExponent(frame.A))
    /\ TeslaExponent(frame.A) = Cardinality({m \in {3, 6, 9} : frame.A % m = 0})

\* A = 18: the boost is 1.05 ** 3
C9_Witness ==
  /\ frame.op = "apply_mhm_enhancement"
  /\ frame.A = 18
  /\ frame.tesla_boost = 11576

\* C10: the factor (1 + 0.15 * ln(A)) multiplies the summed formula value
\* exactly when A > 16, and the enhancement is applied to the scaled value.
C10_HeavyFactorAboveSixteen ==
  (frame.op = "calculate_binding_energy" /\ frame.returned_at = 114) =>
    /\ frame.base = semi_empirical(frame.Z, frame.N)
    /\ frame.A > 16 =>
         frame.scaled = FxMul(frame.base, Fx(1) + FxMul(1500, Log(frame.A)))
    /\ frame.A <= 16 => frame.scaled = frame.base
    /\ frame.ret = apply_mhm_enhancement(frame.Z, frame.N, frame.scaled)

\* A = 17: the value was scaled
C10_Witness ==
  /\ frame.op = "calculate_binding_energy"
  /\ frame.returned_at = 114
  /\ frame.A = 17
  /\ frame.scaled # frame.base
  /\ frame.scaled = FxMul(frame.base, Fx(1) + FxMul(1500, Log(17)))

\* C11: a call of calculate_binding_energy or calculate_stability with Z < 0
\* or N < 0 ends in an invalid-input error and returns no value, and the
\* search passes no negative neutron count to the classifier and goes on.
C11_NegativeInputRejected ==
  /\ (frame.op \in {"calculate_binding_energy", "calculate_stability"}
        /\ (frame.Z < 0 \/ frame.N < 0)) =>
       frame.error # "none"
  /\ \A i \in 1..Len(evaluated) : evaluated[i][1] >= 0 /\ evaluated[i][2] >= 0

\* C12: calculate_binding_energy with A = 0 raises nothing, leaves by the
\* last return statement with the surface, Coulomb, asymmetry and pairing
\* terms all 0, and returns 0.
C12_ZeroMassNumberReturnsZero ==
  (frame.op = "calculate_binding_energy" /\ frame.A = 0) =>
    /\ frame.error = "none"
    /\ frame.returned_at = 114
    /\ frame.terms.surface = 0 /\ frame.terms.surface_im = 0
    /\ frame.terms.coulomb = 0
    /\ frame.terms.asymmetry = 0
    /\ frame.terms.pairing = 0
    /\ frame.ret = 0 /\ frame.ret_im = 0

\* calculate_binding_energy(0, 0) has returned
C12_Witness ==
  /\ frame.op = "calculate_binding_energy"
  /\ frame.Z = 0 /\ frame.N = 0
  /\ frame.error = "none"
  /\ frame.ret = 0

\* the predictions of a list whose isotope has a reference binding energy
Compared(predictions) ==
  {i \in 1..Len(predictions) :
     predictions[i].name \in nist_masses \cap total_binding_energy_keys}

\* C13: no reference value of zero causes a division fault, and a percent
\* error or an accuracy is computed for an entry only when its reference is
\* nonzero: the validator skips the predictions whose reference is 0 (H-1)
\* and counts the other compared ones, and the finder's validation divides
\* by nonzero references only and never raises.
C13_ZeroReferenceExcluded ==
  /\ ~(returned.kind = "raised" /\ returned.raised_at = 299)
  /\ returned.kind = "validate_isotope_finder_predictions" =>
       Len(returned.binding_energy_accuracy) =
         Cardinality({i \in Compared(returned.predictions) :
                        total_binding_energy(returned.predictions[i].name) # 0})
  /\ pc = "validate_against_known_values" =>
       \A i \in 1..Len(validation_results) : validation_results[i].real_be # 0
  /\ returned # [kind |-> "raised", error |-> "ZeroDivisionError"]

\* the validator was handed H-1 and another compared isotope: it returned
\* with one accuracy only
C13_Witness ==
  /\ returned.kind = "validate_isotope_finder_predictions"
  /\ \E i \in Compared(returned.predictions) : returned.predictions[i].name = "H-1"
  /\ Cardinality(Compared(returned.predictions)) = 2
  /\ Len(returned.binding_energy_accuracy) = 1

\* C14: whatever calls were made on the instance, its coefficients, magic
\* numbers, enhancement constants, thresholds and reference list are the
\* ones of the construction, and so the result of a query is the function
\* of (Z, N) and of the constructed values that the method computes.
C14_InstanceUnchanged ==
  /\ self = Constructed
  /\ frame.op = "calculate_binding_energy" =>
       frame = binding_energy_frame(frame.Z, frame.N)
  /\ frame.op = "calculate_stability" =>
       frame = calculate_stability(frame.Z, frame.N)

\* a search has made its 300 pairs of queries on the instance and returned
C14_Witness ==
  /\ returned.kind = "find_medical_isotopes"
  /\ Len(evaluated) = 300
  /\ self = Constructed

\* the symbols of the entries of a list that are flagged is_known_medical
FlaggedSymbols(found_isotopes) ==
  {found_isotopes[i].symbol :
     i \in {j \in 1..Len(found_isotopes) : found_isotopes[j].is_known_medical}}

\* C15: the returned list flags exactly F-18, Tc-99, Co-60 and Y-90 as known
\* medical isotopes, 4 of the 6 keys of known_medical, once each; the report
\* counts 4 and prints 4/6*100 as 66.7.
C15_FourOfSixKnownFound ==
  returned.kind = "find_medical_isotopes" =>
    /\ FlaggedSymbols(returned.value) = {"F-18", "Tc-99", "Co-60", "Y-90"}
    /\ known_medical_found(returned.value) = 4
    /\ Cardinality(DOMAIN known_medical) = 6
    /\ identification_accuracy(known_medical_found(returned.value)) = 667

\* the search returned a list with flagged entries
C15_Witness ==
  /\ returned.kind = "find_medical_isotopes"
  /\ known_medical_found(returned.value) = 4
  /\ "Y-90" \in FlaggedSymbols(returned.value)

\* C16: on the heuristic path of calculate_stability the decay mode is given
\* by the first rule that matches, in the order: score > 0.5 "stable",
\* N > 1.5 Z "beta_minus", Z > 1.2 N "beta_plus", Z > 82 "alpha", otherwise
\* "radioactive"; so "stable" goes with exactly the scores above 0.5, and a
\* nuclide with Z > 82 that matches a ratio rule is not "alpha".
C16_FirstMatchingDecayRule ==
  (frame.op = "calculate_stability" /\ frame.returned_at = 224) =>
    LET Z == frame.Z
        N == frame.N
    IN  /\ frame.decay_mode =
             CASE frame.score > 5000 -> "stable"
               [] frame.score <= 5000 /\ 2 * N > 3 * Z -> "beta_minus"
               [] frame.score <= 5000 /\ 2 * N <= 3 * Z /\ 5 * Z > 6 * N -> "beta_plus"
               [] frame.score <= 5000 /\ 2 * N <= 3 * Z /\ 5 * Z <= 6 * N /\ Z > 82 -> "alpha"
               [] OTHER -> "radioactive"
        /\ frame.decay_mode = "stable" <=> frame.score > 5000
        /\ (Z > 82 /\ frame.score <= 5000 /\ 2 * N > 3 * Z) =>
             frame.decay_mode = "beta_minus"
        /\ (Z > 82 /\ frame.score <= 5000 /\ 2 * N <= 3 * Z /\ 5 * Z > 6 * N) =>
             frame.decay_mode = "beta_plus"

\* a nuclide with Z > 82 and N > 1.5 Z: beta_minus, not alpha
C16_Witness ==
  /\ frame.op = "calculate_stability"
  /\ frame.returned_at = 224
  /\ frame.Z > 82 /\ 2 * frame.N > 3 * frame.Z
  /\ frame.score <= 5000
  /\ frame.decay_mode = "beta_minus"

\* the element of the table with Z protons
ElementOf(Z) ==
  (CHOOSE entry \in {elements_to_check[i] : i \in 1..Len(elements_to_check)} :
     entry[2] = Z)[1]

\* the pair (Z, N) is known, or its computed stability is inside (0.2, 0.7)
MeetsCriterion(Z, N) ==
  LET stability == calculate_stability(Z, N).score
  IN  \/ 2000 < stability /\ stability < 7000
      \/ <<ElementOf(Z), Z + N>> \in DOMAIN known_medical

\* C17: a swept pair is in the list of candidates if and only if its computed
\* stability is strictly between 0.2 and 0.7 or its (element, A) is a key of
\* known_medical; every returned entry that is not flagged has its stability
\* strictly between 0.2 and 0.7, and a stability of exactly 0.2 or 0.7
\* without the flag is not accepted.
C17_CollectedIffInRangeOrKnown ==
  /\ (pc = "find_medical_isotopes" \/ returned.kind = "find_medical_isotopes") =>
       \A i \in 1..Len(evaluated) :
         MeetsCriterion(evaluated[i][1], evaluated[i][2])
           <=> \E j \in 1..Len(medical_isotopes) :
                 /\ medical_isotopes[j].Z = evaluated[i][1]
                 /\ medical_isotopes[j].N = evaluated[i][2]
  /\ returned.kind = "find_medical_isotopes" =>
       /\ \A j \in 1..Len(returned.value) :
            ~returned.value[j].is_known_medical =>
              2000 < returned.value[j].stability /\ returned.value[j].stability < 7000
       /\ ~accepted(2000, FALSE) /\ ~accepted(7000, FALSE)
       /\ accepted(2001, FALSE) /\ accepted(6999, FALSE) /\ accepted(7000, TRUE)

\* the search returned entries without the flag, and it had swept pairs it
\* did not collect, with a stability below the range and with one above it
C17_Witness ==
  /\ returned.kind = "find_medical_isotopes"
  /\ \E j \in 1..Len(returned.value) : ~returned.value[j].is_known_medical
  /\ \E i \in 1..Len(evaluated) :
       /\ ~MeetsCriterion(evaluated[i][1], evaluated[i][2])
       /\ calculate_stability(evaluated[i][1], evaluated[i][2]).score >= 7000
  /\ \E i \in 1..Len(evaluated) :
       /\ ~MeetsCriterion(evaluated[i][1], evaluated[i][2])
       /\ calculate_stability(evaluated[i][1], evaluated[i][2]).score <= 2000

\* the pair the search evaluates at position i, counting from 1: element
\* (i - 1) \div 30 + 1 of the table and its neutron count Z - 10 + (i - 1) % 30
WindowPair(i) ==
  LET Z == elements_to_check[(i - 1) \div 30 + 1][2]
  IN  <<Z, (Z - 10) + ((i - 1) % 30)>>

\* C18: the search terminates; what it has evaluated so far is a prefix of
\* the 30 neutron counts Z-10 .. Z+19 of each element in the order of the
\* table, and when it returns it has evaluated exactly these 30 * 10 = 300
\* pairs, each once.
C18_ThirtyPerElementAndTerminates ==
  /\ [](/\ Len(evaluated) <= 30 * Len(elements_to_check)
        /\ \A i \in 1..Len(evaluated) : evaluated[i] = WindowPair(i)
        /\ returned.kind = "find_medical_isotopes" =>
             /\ Len(evaluated) = 300
             /\ Cardinality({evaluated[k] : k \in 1..300}) = 300)
  /\ (pc = "find_medical_isotopes") ~> (returned.kind = "find_medical_isotopes")

\* the search returned after the pairs from (9, -1) to (68, 87)
C18_Witness ==
  /\ returned.kind = "find_medical_isotopes"
  /\ Len(evaluated) = 300
  /\ evaluated[1] = <<9, -1>>
  /\ evaluated[30] = <<9, 28>>
  /\ evaluated[300] = <<68, 87>>

\* C19: a query that a thread has finished, whatever steps of the other
\* threads' queries ran in between, returned what the same query returns
\* when it runs alone, and no step of a query has written to the instance.
C19_ConcurrentQueriesAgree ==
  /\ (\E t \in Threads : threads[t].pc # "idle") => self = Constructed
  /\ \A t \in Threads :
       threads[t].pc = "returned" =>
         IF threads[t].op = "calculate_binding_energy"
         THEN threads[t].ret = calculate_binding_energy(threads[t].Z, threads[t].N)
         ELSE /\ threads[t].ret = calculate_stability(threads[t].Z, threads[t].N).score
              /\ threads[t].decay_mode =
                   calculate_stability(threads[t].Z, threads[t].N).decay_mode

\* one thread has returned from the formula path of calculate_binding_energy
\* while another is inside calculate_stability, past its nested call
C19_Witness ==
  \E t, u \in Threads :
    /\ t # u
    /\ threads[t].pc = "returned"
    /\ threads[t].op = "calculate_binding_energy"
    /\ threads[t].Z = 27 /\ threads[t].N = 33
    /\ threads[t].ret = calculate_binding_energy(27, 33)
    /\ threads[u].pc = "finishing"
    /\ threads[u].op = "calculate_stability"

\* C20: every candidate the search collects, and so every entry it returns,
\* has N >= 0 and A = Z + N > 0, although the windows start at Z - 10 and
\* the one of fluorine holds the pair (9, -1).
C20_CandidatesNonNegative ==
  /\ \A j \in 1..Len(medical_isotopes) :
       /\ medical_isotopes[j].N >= 0
       /\ medical_isotopes[j].A = medical_isotopes[j].Z + medical_isotopes[j].N
       /\ medical_isotopes[j].A > 0
  /\ returned.kind = "find_medical_isotopes" =>
       \A j \in 1..Len(returned.value) :
         /\ returned.value[j].N >= 0
         /\ returned.value[j].A = returned.value[j].Z + returned.value[j].N
         /\ returned.value[j].A > 0

\* the search evaluated fluorine with N = -1, collected fluorine isotopes
\* and returned, with no entry for (9, -1)
C20_Witness ==
  /\ returned.kind = "find_medical_isotopes"
  /\ \E i \in 1..Len(evaluated) : evaluated[i] = <<9, -1>>
  /\ \E j \in 1..Len(medical_isotopes) : medical_isotopes[j].Z = 9
  /\ \A j \in 1..Len(medical_isotopes) : medical_isotopes[j].N # -1
  /\ returned.value # <<>>

\* C21: every returned entry with decay_mode "stable" reports a stability
\* strictly above the stability threshold 0.5, the known medical isotopes
\* included.
C21_StableOnlyAboveThreshold ==
  returned.kind = "find_medical_isotopes" =>
    \A j \in 1..Len(returned.value) :
      returned.value[j].decay_mode = "stable" =>
        returned.value[j].stability > self.calibration.stability_threshold

\* C22: validate_isotope_finder_predictions returns for every list of
\* predictions, the empty one included, without the division of line 332
\* raising, and its counters are at most total_predictions, the number of
\* accuracies at most validated_against_nist, and nist_validation_rate in
\* [0, 1].
C22_ValidatorTotalAndBounded ==
  /\ ~(returned.kind = "raised" /\ returned.raised_at = 332)
  /\ returned.kind = "validate_isotope_finder_predictions" =>
       /\ returned.total_predictions = Len(returned.predictions)
       /\ returned.validated_against_nist <= returned.total_predictions
       /\ returned.magic_number_predictions <= returned.total_predictions
       /\ returned.medical_isotope_matches <= returned.total_predictions
       /\ Len(returned.binding_energy_accuracy) <= returned.validated_against_nist
       /\ 0 <= returned.nist_validation_rate
       /\ returned.nist_validation_rate <= Fx(1)

====
